---- MODULE Spec2Model ----
(***************************************************************************)
(* Concurrent TCP echo server (lec-10/server.c) and its interactive        *)
(* select()-based client (lec-10/client.c).                                *)
(*                                                                         *)
(* The server process has one main thread (the accept loop) and one        *)
(* detached worker thread per accepted connection (client_thread).  A      *)
(* connection is a pair of bounded byte channels c2s / s2c.  Descriptor    *)
(* numbers and heap addresses are allocated lowest-free, so both are       *)
(* reused after close / free.                                              *)
(***************************************************************************)
EXTENDS Integers, Sequences, FiniteSets, TLC

\* ---------------------------------------------------------------- bounds
NConn     == 2     \* connections (peers) that may ever connect
MaxMsg    == 3     \* bytes the peer sends at most when it is the only one
MsgMulti  == 1     \* bytes each peer sends at most when several connect
Cap       == 2     \* bytes in flight in one direction of a connection, server scenarios
CapClient == 1     \* the same, in the scenario of client.c against the server
BufSize   == 4     \* sizeof(buf), sizeof(inbuf), sizeof(netbuf): 4096 in the code
MaxIn     == 4     \* bytes typed on the client's standard input at most

Conns == 1..NConn
Tids  == 1..NConn          \* worker threads, numbered in creation order
Fds   == 1..NConn          \* descriptor numbers of connected sockets
Addrs == 1..(NConn + 1)    \* heap addresses of struct client_ctx objects
Vals  == 0..1
ByteOf(c, v) == 10 * c + v \* a byte value sent on connection c

VARIABLES
    \* ---- server process
    g_stop,      \* volatile sig_atomic_t g_stop
    mpc,         \* position of main()
    ctx,         \* main's local ctx pointer (0 = none)
    mintr,       \* a handler ran in the main thread while it was inside accept()
    listen_open, \* listen_fd refers to an open listening socket
    status,      \* exit status of the server process, -1 while running
    heap,        \* heap[a]: struct client_ctx at address a
    fdtab,       \* descriptor table: fd -> connection, 0 = unused number
    nthr,        \* number of threads created so far
    wpc,         \* position of each worker thread
    warg,        \* void *arg of each worker
    wfd,         \* local fd of each worker
    buf, n, sent,\* echo buffer, recv count and send offset of each worker
    closes,      \* close(fd) calls made by each worker
    wlog,        \* log lines written by each worker
    wend,        \* why each worker left its echo loop
    \* ---- connections
    cst,         \* "none" | "pending" | "accepted" | "sclosed"
    c2s, s2c,    \* bytes in flight, peer->server and server->peer
    cwr,         \* the peer's write half is open
    copen,       \* the peer's descriptor is open
    cin, cout,   \* all bytes the peer has sent / has received so far
    \* ---- client process (client.c)
    cap,         \* capacity of each direction of a connection (socket buffers)
    cpc,         \* position of the client's main()
    stdin_open,  \* bool stdin_open
    rfds,        \* the descriptors select() reported readable
    stdin,       \* bytes typed and not yet read
    stdin_eof,   \* end of input has been typed
    typed,       \* number of bytes typed so far
    stdout,      \* bytes written to standard output
    netbuf, inbuf, cn, off, \* buffers, and the n / off of the block being executed
    cstatus,     \* exit status of the client, -1 while running
    cclosed,     \* close(fd) calls made by the client
    shuts,       \* shutdown(fd, SHUT_WR) calls made by the client
    cexit        \* why the client left its loop

svars == <<g_stop, mpc, ctx, mintr, listen_open, status, heap, fdtab, nthr,
           wpc, warg, wfd, buf, n, sent, closes, wlog, wend>>
nvars == <<cst, c2s, s2c, cwr, copen, cin, cout>>
cvars == <<cap, cpc, stdin_open, rfds, stdin, stdin_eof, typed, stdout,
           netbuf, inbuf, cn, off, cstatus, cclosed, shuts, cexit>>
vars  == <<svars, nvars, cvars>>

\* ---------------------------------------------------------------- helpers
Min(a, b) == IF a <= b THEN a ELSE b
Take(s, k) == SubSeq(s, 1, k)
Drop(s, k) == SubSeq(s, k + 1, Len(s))
IsPrefix(s, t) == Len(s) <= Len(t) /\ s = SubSeq(t, 1, Len(s))
Lowest(S) == CHOOSE x \in S : \A y \in S : x <= y

FreeCtx == [live |-> FALSE, fd |-> 0]
FreeFds == {f \in Fds : fdtab[f] = 0}
FreeAddrs == {a \in Addrs : ~heap[a].live}

\* The connection a descriptor number currently refers to (0: none, EBADF).
ConnOf(f) == IF f \in Fds THEN fdtab[f] ELSE 0

\* ---------------------------------------------------------------- Init
ServerInit ==
    /\ g_stop = 0
    /\ mpc = "start"
    /\ ctx = 0
    /\ mintr = FALSE
    /\ listen_open = FALSE
    /\ status = -1
    /\ heap = [a \in Addrs |-> FreeCtx]
    /\ fdtab = [f \in Fds |-> 0]
    /\ nthr = 0
    /\ wpc = [t \in Tids |-> "none"]
    /\ warg = [t \in Tids |-> 0]
    /\ wfd = [t \in Tids |-> 0]
    /\ buf = [t \in Tids |-> <<>>]
    /\ n = [t \in Tids |-> 0]
    /\ sent = [t \in Tids |-> 0]
    /\ closes = [t \in Tids |-> 0]
    /\ wlog = [t \in Tids |-> <<>>]
    /\ wend = [t \in Tids |-> "none"]

NetInit ==
    /\ cst = [c \in Conns |-> "none"]
    /\ c2s = [c \in Conns |-> <<>>]
    /\ s2c = [c \in Conns |-> <<>>]
    /\ cwr = [c \in Conns |-> TRUE]
    /\ copen = [c \in Conns |-> FALSE]
    /\ cin = [c \in Conns |-> <<>>]
    /\ cout = [c \in Conns |-> <<>>]

ClientInit(pc0) ==
    /\ cpc = pc0
    /\ stdin_open = TRUE
    /\ rfds = {}
    /\ stdin = <<>>
    /\ stdin_eof = FALSE
    /\ typed = 0
    /\ stdout = <<>>
    /\ netbuf = <<>>
    /\ inbuf = <<>>
    /\ cn = 0
    /\ off = 0
    /\ cstatus = -1
    /\ cclosed = 0
    /\ shuts = 0
    /\ cexit = "none"

\* The server and abstract peers; client.c is not running.
Init == ServerInit /\ NetInit /\ ClientInit("off") /\ cap = Cap

\* The server and one client.c process, which uses connection 1.
InitClient == ServerInit /\ NetInit /\ ClientInit("start") /\ cap = CapClient

\* ---------------------------------------------------------------- kernel
\* close(f): the number becomes free and the server end of the connection
\* it referred to is closed; on a number that refers to nothing, EBADF.
CloseFd(f) ==
    IF ConnOf(f) # 0
    THEN /\ fdtab' = [fdtab EXCEPT ![f] = 0]
         /\ cst' = [cst EXCEPT ![ConnOf(f)] = "sclosed"]
    ELSE UNCHANGED <<fdtab, cst>>

\* The process ends (return from main): every thread that is still running
\* ends with it and the kernel closes every descriptor.
ProcessExit(st) ==
    /\ status' = st
    /\ mpc' = "exited"
    /\ listen_open' = FALSE
    /\ wpc' = [t \in Tids |-> IF wpc[t] \in {"none", "exited"} THEN wpc[t] ELSE "killed"]
    /\ wfd' = [t \in Tids |-> 0]
    /\ buf' = [t \in Tids |-> <<>>]
    /\ n' = [t \in Tids |-> 0]
    /\ sent' = [t \in Tids |-> 0]
    /\ fdtab' = [f \in Fds |-> 0]
    /\ cst' = [c \in Conns |-> IF cst[c] \in {"pending", "accepted"} THEN "sclosed" ELSE cst[c]]

\* Reading ctx->fd: the stored value, or anything when the object was freed.
CtxFd(a) == IF a \in Addrs /\ heap[a].live THEN {heap[a].fd} ELSE Fds \cup {0}

\* ---------------------------------------------------------------- signal handler
\* on_sigint, run in the main thread.  sigaction() was called without
\* SA_RESTART, so an accept() the main thread is blocked in fails with EINTR.
SigintMain ==
    /\ mpc \notin {"start", "exited"}
    /\ g_stop' = 1
    /\ mintr' = (mintr \/ mpc = "accept")
    /\ UNCHANGED <<mpc, ctx, listen_open, status, heap, fdtab, nthr, wpc, warg, wfd,
                   buf, n, sent, closes, wlog, wend, nvars, cvars>>

\* on_sigint, run in a worker thread: the main thread is not interrupted.
SigintWorker ==
    /\ mpc \notin {"start", "exited"}
    /\ \E t \in Tids : wpc[t] \notin {"none", "exited", "killed"}
    /\ g_stop' = 1
    /\ UNCHANGED <<mpc, ctx, mintr, listen_open, status, heap, fdtab, nthr, wpc, warg, wfd,
                   buf, n, sent, closes, wlog, wend, nvars, cvars>>

\* ---------------------------------------------------------------- main()
wvars == <<nthr, wpc, warg, wfd, buf, n, sent, closes, wlog, wend>>

\* argc check and installation of the handlers
M_Start ==
    /\ mpc = "start"
    /\ \E ok \in BOOLEAN :
         IF ok
         THEN /\ mpc' = "resolve"
              /\ UNCHANGED <<status, listen_open, wpc, wfd, buf, n, sent, fdtab, cst>>
         ELSE ProcessExit(1)
    /\ UNCHANGED <<g_stop, ctx, mintr, heap, nthr, warg, closes, wlog, wend,
                   c2s, s2c, cwr, copen, cin, cout, cvars>>

\* getaddrinfo
M_Resolve ==
    /\ mpc = "resolve"
    /\ \E ok \in BOOLEAN :
         IF ok
         THEN /\ mpc' = "bind"
              /\ UNCHANGED <<status, listen_open, wpc, wfd, buf, n, sent, fdtab, cst>>
         ELSE ProcessExit(1)
    /\ UNCHANGED <<g_stop, ctx, mintr, heap, nthr, warg, closes, wlog, wend,
                   c2s, s2c, cwr, copen, cin, cout, cvars>>

\* the loop over the address candidates: one binds, or none does
M_Bind ==
    /\ mpc = "bind"
    /\ \E ok \in BOOLEAN :
         IF ok
         THEN /\ mpc' = "listen"
              /\ listen_open' = TRUE
              /\ UNCHANGED <<status, wpc, wfd, buf, n, sent, fdtab, cst>>
         ELSE ProcessExit(1)
    /\ UNCHANGED <<g_stop, ctx, mintr, heap, nthr, warg, closes, wlog, wend,
                   c2s, s2c, cwr, copen, cin, cout, cvars>>

\* listen
M_Listen ==
    /\ mpc = "listen"
    /\ \E ok \in BOOLEAN :
         IF ok
         THEN /\ mpc' = "test"
              /\ UNCHANGED <<status, listen_open, wpc, wfd, buf, n, sent, fdtab, cst>>
         ELSE ProcessExit(1)
    /\ UNCHANGED <<g_stop, ctx, mintr, heap, nthr, warg, closes, wlog, wend,
                   c2s, s2c, cwr, copen, cin, cout, cvars>>

\* while (!g_stop)
M_Test ==
    /\ mpc = "test"
    /\ mpc' = IF g_stop = 0 THEN "alloc" ELSE "shut"
    /\ UNCHANGED <<g_stop, ctx, mintr, listen_open, status, heap, fdtab, wvars,
                   nvars, cvars>>

\* ctx = malloc(...); on success main goes on into accept()
M_Malloc ==
    /\ mpc = "alloc"
    /\ \E ok \in BOOLEAN :
         IF ok /\ FreeAddrs # {}
         THEN /\ ctx' = Lowest(FreeAddrs)
              /\ heap' = [heap EXCEPT ![Lowest(FreeAddrs)] = [live |-> TRUE, fd |-> 0]]
              /\ mpc' = "accept"
         ELSE /\ mpc' = "shut"
              /\ UNCHANGED <<ctx, heap>>
    /\ UNCHANGED <<g_stop, mintr, listen_open, status, fdtab, wvars, nvars, cvars>>

\* accept() returns a connection: the lowest unused descriptor number
M_AcceptOk ==
    /\ mpc = "accept"
    /\ ~mintr
    /\ FreeFds # {}
    /\ \E c \in Conns :
         /\ cst[c] = "pending"
         /\ cst' = [cst EXCEPT ![c] = "accepted"]
         /\ fdtab' = [fdtab EXCEPT ![Lowest(FreeFds)] = c]
    /\ heap' = [heap EXCEPT ![ctx].fd = Lowest(FreeFds)]
    /\ mpc' = "spawn"
    /\ UNCHANGED <<g_stop, ctx, mintr, listen_open, status, wvars,
                   c2s, s2c, cwr, copen, cin, cout, cvars>>

\* accept() fails with EINTR (always so once a handler has interrupted it)
M_AcceptEintr ==
    /\ mpc = "accept"
    /\ mintr' = FALSE
    /\ heap' = [heap EXCEPT ![ctx].fd = -1]
    /\ mpc' = "accept_eintr"
    /\ UNCHANGED <<g_stop, ctx, listen_open, status, fdtab, wvars, nvars, cvars>>

\* accept() fails with another error
M_AcceptErr ==
    /\ mpc = "accept"
    /\ ~mintr
    /\ heap' = [heap EXCEPT ![ctx].fd = -1]
    /\ mpc' = "accept_err"
    /\ UNCHANGED <<g_stop, ctx, mintr, listen_open, status, fdtab, wvars, nvars, cvars>>

\* M_AcceptFailed without the EINTR test: every failure breaks the loop
M_AcceptFailed_Fatal ==
    /\ mpc \in {"accept_eintr", "accept_err"}
    /\ heap' = [heap EXCEPT ![ctx] = FreeCtx]
    /\ ctx' = 0
    /\ mpc' = "shut"
    /\ UNCHANGED <<g_stop, mintr, listen_open, status, fdtab, wvars, nvars, cvars>>

\* if (ctx->fd < 0): free(ctx); then continue on EINTR, else perror and break
M_AcceptFailed ==
    /\ mpc \in {"accept_eintr", "accept_err"}
    /\ heap' = [heap EXCEPT ![ctx] = FreeCtx]
    /\ ctx' = 0
    /\ mpc' = IF mpc = "accept_eintr" THEN "test" ELSE "shut"
    /\ UNCHANGED <<g_stop, mintr, listen_open, status, fdtab, wvars, nvars, cvars>>

\* M_SpawnOk followed by pthread_join: the dispatcher waits for the session
M_SpawnOk_Join ==
    /\ mpc = "spawn"
    /\ nthr < NConn
    /\ nthr' = nthr + 1
    /\ wpc' = [wpc EXCEPT ![nthr + 1] = "start"]
    /\ warg' = [warg EXCEPT ![nthr + 1] = ctx]
    /\ ctx' = 0
    /\ mpc' = "join"
    /\ UNCHANGED <<g_stop, mintr, listen_open, status, heap, fdtab, wfd, buf, n, sent,
                   closes, wlog, wend, nvars, cvars>>

\* M_SpawnOk with free(ctx) after a successful pthread_create: the dispatcher
\* frees the context it has handed over
M_SpawnOk_Free ==
    /\ mpc = "spawn"
    /\ nthr < NConn
    /\ nthr' = nthr + 1
    /\ wpc' = [wpc EXCEPT ![nthr + 1] = "start"]
    /\ warg' = [warg EXCEPT ![nthr + 1] = ctx]
    /\ heap' = [heap EXCEPT ![ctx] = FreeCtx]
    /\ ctx' = 0
    /\ mpc' = "test"
    /\ UNCHANGED <<g_stop, mintr, listen_open, status, fdtab, wfd, buf, n, sent,
                   closes, wlog, wend, nvars, cvars>>

\* pthread_create succeeds: the new thread gets ctx as its argument
M_SpawnOk ==
    /\ mpc = "spawn"
    /\ nthr < NConn
    /\ nthr' = nthr + 1
    /\ wpc' = [wpc EXCEPT ![nthr + 1] = "start"]
    /\ warg' = [warg EXCEPT ![nthr + 1] = ctx]
    /\ ctx' = 0
    /\ mpc' = "test"
    /\ UNCHANGED <<g_stop, mintr, listen_open, status, heap, fdtab, wfd, buf, n, sent,
                   closes, wlog, wend, nvars, cvars>>

\* M_SpawnFail that gives up: close, free, break
M_SpawnFail_Fatal ==
    /\ mpc = "spawn"
    /\ \E f \in CtxFd(ctx) : CloseFd(f)
    /\ heap' = [heap EXCEPT ![ctx] = FreeCtx]
    /\ ctx' = 0
    /\ mpc' = "shut"
    /\ UNCHANGED <<g_stop, mintr, listen_open, status, wvars,
                   c2s, s2c, cwr, copen, cin, cout, cvars>>

\* pthread_create fails: close(ctx->fd); free(ctx)
M_SpawnFail ==
    /\ mpc = "spawn"
    /\ \E f \in CtxFd(ctx) : CloseFd(f)
    /\ heap' = [heap EXCEPT ![ctx] = FreeCtx]
    /\ ctx' = 0
    /\ mpc' = "test"
    /\ UNCHANGED <<g_stop, mintr, listen_open, status, wvars,
                   c2s, s2c, cwr, copen, cin, cout, cvars>>

\* after the loop: the shutdown notice and close(listen_fd)
M_CloseListener ==
    /\ mpc = "shut"
    /\ listen_open' = FALSE
    /\ cst' = [c \in Conns |-> IF cst[c] = "pending" THEN "sclosed" ELSE cst[c]]
    /\ mpc' = "ret"
    /\ UNCHANGED <<g_stop, ctx, mintr, status, heap, fdtab, wvars,
                   c2s, s2c, cwr, copen, cin, cout, cvars>>

\* return EXIT_SUCCESS from main
M_Return ==
    /\ mpc = "ret"
    /\ ProcessExit(0)
    /\ UNCHANGED <<g_stop, ctx, mintr, heap, nthr, warg, closes, wlog, wend,
                   c2s, s2c, cwr, copen, cin, cout, cvars>>

\* ---------------------------------------------------------------- client_thread
mvars == <<g_stop, mpc, ctx, mintr, listen_open, status>>

\* The thread is gone and its stack with it.
ThreadExit(t) ==
    /\ wpc' = [wpc EXCEPT ![t] = "exited"]
    /\ wfd' = [wfd EXCEPT ![t] = 0]
    /\ buf' = [buf EXCEPT ![t] = <<>>]
    /\ n' = [n EXCEPT ![t] = 0]
    /\ sent' = [sent EXCEPT ![t] = 0]

\* entry: fd = ctx->fd; log the peer; free(ctx)
W_Start(t) ==
    /\ wpc[t] = "start"
    /\ \E f \in CtxFd(warg[t]) : wfd' = [wfd EXCEPT ![t] = f]
    /\ wlog' = [wlog EXCEPT ![t] = Append(@, "+")]
    /\ heap' = [heap EXCEPT ![warg[t]] = FreeCtx]
    /\ wpc' = [wpc EXCEPT ![t] = "recv"]
    /\ UNCHANGED <<mvars, fdtab, nthr, warg, buf, n, sent, closes, wend, nvars, cvars>>

\* W_RecvData with the buffer shared by all threads (static char buf[4096])
W_RecvData_SharedBuf(t) ==
    /\ wpc[t] = "recv"
    /\ ConnOf(wfd[t]) # 0
    /\ \E k \in 1..Min(BufSize, Len(c2s[ConnOf(wfd[t])])) :
         /\ buf' = [u \in Tids |-> IF wpc[u] \in {"none", "exited", "killed"} /\ u # t
                                   THEN buf[u] ELSE Take(c2s[ConnOf(wfd[t])], k)]
         /\ c2s' = [c2s EXCEPT ![ConnOf(wfd[t])] = Drop(@, k)]
         /\ n' = [n EXCEPT ![t] = k]
    /\ sent' = [sent EXCEPT ![t] = 0]
    /\ wpc' = [wpc EXCEPT ![t] = "send"]
    /\ UNCHANGED <<mvars, heap, fdtab, nthr, warg, wfd, closes, wlog, wend,
                   cst, s2c, cwr, copen, cin, cout, cvars>>

\* recv returns k > 0 bytes: the echo of this chunk starts at sent = 0
W_RecvData(t) ==
    /\ wpc[t] = "recv"
    /\ ConnOf(wfd[t]) # 0
    /\ \E k \in 1..Min(BufSize, Len(c2s[ConnOf(wfd[t])])) :
         /\ buf' = [buf EXCEPT ![t] = Take(c2s[ConnOf(wfd[t])], k)]
         /\ c2s' = [c2s EXCEPT ![ConnOf(wfd[t])] = Drop(@, k)]
         /\ n' = [n EXCEPT ![t] = k]
    /\ sent' = [sent EXCEPT ![t] = 0]
    /\ wpc' = [wpc EXCEPT ![t] = "send"]
    /\ UNCHANGED <<mvars, heap, fdtab, nthr, warg, wfd, closes, wlog, wend,
                   cst, s2c, cwr, copen, cin, cout, cvars>>

\* recv returns 0: the peer has shut down its write half; break
W_RecvEof(t) ==
    /\ wpc[t] = "recv"
    /\ ConnOf(wfd[t]) # 0
    /\ c2s[ConnOf(wfd[t])] = <<>>
    /\ ~cwr[ConnOf(wfd[t])]
    /\ n' = [n EXCEPT ![t] = 0]
    /\ wend' = [wend EXCEPT ![t] = "eof"]
    /\ wpc' = [wpc EXCEPT ![t] = "close"]
    /\ UNCHANGED <<mvars, heap, fdtab, nthr, warg, wfd, buf, sent, closes, wlog,
                   nvars, cvars>>

\* recv fails with EINTR
W_RecvEintr(t) ==
    /\ wpc[t] = "recv"
    /\ wpc' = [wpc EXCEPT ![t] = "recv_eintr"]
    /\ n' = [n EXCEPT ![t] = -1]
    /\ UNCHANGED <<mvars, heap, fdtab, nthr, warg, wfd, buf, sent, closes, wlog, wend,
                   nvars, cvars>>

\* W_RecvRetry that treats EINTR as any other error: break
W_RecvRetry_Break(t) ==
    /\ wpc[t] = "recv_eintr"
    /\ wend' = [wend EXCEPT ![t] = "recv"]
    /\ wpc' = [wpc EXCEPT ![t] = "close"]
    /\ UNCHANGED <<mvars, heap, fdtab, nthr, warg, wfd, buf, n, sent, closes, wlog,
                   nvars, cvars>>

\* if (errno == EINTR) continue;
W_RecvRetry(t) ==
    /\ wpc[t] = "recv_eintr"
    /\ wpc' = [wpc EXCEPT ![t] = "recv"]
    /\ UNCHANGED <<mvars, heap, fdtab, nthr, warg, wfd, buf, n, sent, closes, wlog, wend,
                   nvars, cvars>>

\* recv fails with another error: perror; break
W_RecvErr(t) ==
    /\ wpc[t] = "recv"
    /\ n' = [n EXCEPT ![t] = -1]
    /\ wend' = [wend EXCEPT ![t] = "recv"]
    /\ wpc' = [wpc EXCEPT ![t] = "close"]
    /\ UNCHANGED <<mvars, heap, fdtab, nthr, warg, wfd, buf, sent, closes, wlog,
                   nvars, cvars>>

\* W_Send without the loop: one send call, whatever it took, and back to recv
W_Send_Once(t) ==
    /\ wpc[t] = "send"
    /\ ConnOf(wfd[t]) # 0
    /\ copen[ConnOf(wfd[t])]
    /\ \E m \in 1..Min(n[t] - sent[t], cap - Len(s2c[ConnOf(wfd[t])])) :
         /\ s2c' = [s2c EXCEPT ![ConnOf(wfd[t])] =
                        @ \o SubSeq(buf[t], sent[t] + 1, sent[t] + m)]
         /\ sent' = [sent EXCEPT ![t] = @ + m]
         /\ wpc' = [wpc EXCEPT ![t] = "recv"]
    /\ UNCHANGED <<mvars, heap, fdtab, nthr, warg, wfd, buf, n, closes, wlog, wend,
                   cst, c2s, cwr, copen, cin, cout, cvars>>

\* W_Send that sends from the start of the buffer: send(fd, buf, n - sent)
W_Send_FromStart(t) ==
    /\ wpc[t] = "send"
    /\ ConnOf(wfd[t]) # 0
    /\ copen[ConnOf(wfd[t])]
    /\ \E m \in 1..Min(n[t] - sent[t], cap - Len(s2c[ConnOf(wfd[t])])) :
         /\ s2c' = [s2c EXCEPT ![ConnOf(wfd[t])] = @ \o SubSeq(buf[t], 1, m)]
         /\ sent' = [sent EXCEPT ![t] = @ + m]
         /\ wpc' = [wpc EXCEPT ![t] = IF sent[t] + m < n[t] THEN "send" ELSE "recv"]
    /\ UNCHANGED <<mvars, heap, fdtab, nthr, warg, wfd, buf, n, closes, wlog, wend,
                   cst, c2s, cwr, copen, cin, cout, cvars>>

\* send(fd, buf + sent, n - sent) transfers m bytes; sent += m
W_Send(t) ==
    /\ wpc[t] = "send"
    /\ ConnOf(wfd[t]) # 0
    /\ copen[ConnOf(wfd[t])]
    /\ \E m \in 1..Min(n[t] - sent[t], cap - Len(s2c[ConnOf(wfd[t])])) :
         /\ s2c' = [s2c EXCEPT ![ConnOf(wfd[t])] =
                        @ \o SubSeq(buf[t], sent[t] + 1, sent[t] + m)]
         /\ sent' = [sent EXCEPT ![t] = @ + m]
         /\ wpc' = [wpc EXCEPT ![t] = IF sent[t] + m < n[t] THEN "send" ELSE "recv"]
    /\ UNCHANGED <<mvars, heap, fdtab, nthr, warg, wfd, buf, n, closes, wlog, wend,
                   cst, c2s, cwr, copen, cin, cout, cvars>>

\* send fails with EINTR
W_SendEintr(t) ==
    /\ wpc[t] = "send"
    /\ wpc' = [wpc EXCEPT ![t] = "send_eintr"]
    /\ UNCHANGED <<mvars, heap, fdtab, nthr, warg, wfd, buf, n, sent, closes, wlog, wend,
                   nvars, cvars>>

\* if (errno == EINTR) continue;
W_SendRetry(t) ==
    /\ wpc[t] = "send_eintr"
    /\ wpc' = [wpc EXCEPT ![t] = "send"]
    /\ UNCHANGED <<mvars, heap, fdtab, nthr, warg, wfd, buf, n, sent, closes, wlog, wend,
                   nvars, cvars>>

\* W_SendErr with exit(EXIT_FAILURE) in place of pthread_exit: the error of one
\* session ends the process
W_SendErr_Exit(t) ==
    /\ wpc[t] = "send"
    /\ wend' = [wend EXCEPT ![t] = "send"]
    /\ closes' = [closes EXCEPT ![t] = @ + 1]
    /\ ProcessExit(1)
    /\ UNCHANGED <<g_stop, ctx, mintr, heap, nthr, warg, wlog,
                   c2s, s2c, cwr, copen, cin, cout, cvars>>

\* W_SendErr with break in place of pthread_exit: the echo loop goes on
W_SendErr_Break(t) ==
    /\ wpc[t] = "send"
    /\ wend' = [wend EXCEPT ![t] = "send"]
    /\ CloseFd(wfd[t])
    /\ closes' = [closes EXCEPT ![t] = @ + 1]
    /\ wpc' = [wpc EXCEPT ![t] = "recv"]
    /\ UNCHANGED <<mvars, heap, nthr, warg, wfd, buf, n, sent, wlog,
                   c2s, s2c, cwr, copen, cin, cout, cvars>>

\* send fails with another error: perror; close(fd); pthread_exit
W_SendErr(t) ==
    /\ wpc[t] = "send"
    /\ wend' = [wend EXCEPT ![t] = "send"]
    /\ CloseFd(wfd[t])
    /\ closes' = [closes EXCEPT ![t] = @ + 1]
    /\ ThreadExit(t)
    /\ UNCHANGED <<mvars, heap, nthr, warg, wlog,
                   c2s, s2c, cwr, copen, cin, cout, cvars>>

\* after the loop: log the disconnect; close(fd); pthread_exit
W_Close(t) ==
    /\ wpc[t] = "close"
    /\ wlog' = [wlog EXCEPT ![t] = Append(@, "-")]
    /\ CloseFd(wfd[t])
    /\ closes' = [closes EXCEPT ![t] = @ + 1]
    /\ ThreadExit(t)
    /\ UNCHANGED <<mvars, heap, nthr, warg, wend,
                   c2s, s2c, cwr, copen, cin, cout, cvars>>

\* ---------------------------------------------------------------- peers
\* An abstract peer of the server: connects, sends bytes of its own,
\* shuts down its write half, and reads what comes back.
Listening ==
    /\ listen_open
    /\ mpc \in {"test", "alloc", "accept", "accept_eintr", "accept_err", "spawn", "shut"}

P_Connect(c) ==
    /\ cst[c] = "none"
    /\ Listening
    /\ cst' = [cst EXCEPT ![c] = "pending"]
    /\ copen' = [copen EXCEPT ![c] = TRUE]
    /\ UNCHANGED <<svars, c2s, s2c, cwr, cin, cout, cvars>>

\* the peer sends one more byte, of a message of at most max bytes
P_Send(c, max, V) ==
    /\ cst[c] \in {"pending", "accepted"}
    /\ copen[c] /\ cwr[c]
    /\ Len(c2s[c]) < cap
    /\ Len(cin[c]) < max
    /\ \E v \in V :
         /\ c2s' = [c2s EXCEPT ![c] = Append(@, ByteOf(c, v))]
         /\ cin' = [cin EXCEPT ![c] = Append(@, ByteOf(c, v))]
    /\ UNCHANGED <<svars, cst, s2c, cwr, copen, cout, cvars>>

P_Shutdown(c) ==
    /\ cst[c] # "none"
    /\ copen[c] /\ cwr[c]
    /\ cwr' = [cwr EXCEPT ![c] = FALSE]
    /\ UNCHANGED <<svars, cst, c2s, s2c, copen, cin, cout, cvars>>

P_Recv(c) ==
    /\ copen[c]
    /\ \E k \in 1..Len(s2c[c]) :
         /\ cout' = [cout EXCEPT ![c] = @ \o Take(s2c[c], k)]
         /\ s2c' = [s2c EXCEPT ![c] = Drop(@, k)]
    /\ UNCHANGED <<svars, cst, c2s, cwr, copen, cin, cvars>>

\* ---------------------------------------------------------------- client.c
\* The client process uses connection CC.  n and off are declared in the
\* block that handles the socket and again in the block that handles
\* standard input; only one of the blocks runs at a time, so cn and off model
\* both, and they are 0 outside the blocks.
CC == 1
kvars == <<cap, stdin_eof, typed>>

\* select() reports the socket readable when bytes or the end of the stream
\* are waiting, and standard input when bytes or the end of input are.
FdReady == s2c[CC] # <<>> \/ cst[CC] = "sclosed"
InReady == stdin # <<>> \/ stdin_eof
\* Ready with FD_SET(STDIN_FILENO, &rfds) whether or not stdin_open
Ready_Always == (IF FdReady THEN {"fd"} ELSE {}) \cup (IF InReady THEN {"in"} ELSE {})

Ready == (IF FdReady THEN {"fd"} ELSE {}) \cup (IF stdin_open /\ InReady THEN {"in"} ELSE {})

\* where the loop body goes after the socket block
AfterNet == IF stdin_open /\ "in" \in rfds THEN "stdin" ELSE "select"

\* the position after a call at position p has failed with EINTR
EintrAt == [select |-> "select_eintr", net |-> "net_eintr", write |-> "write_eintr",
            stdin |-> "stdin_eintr", send |-> "send_eintr"]

\* The process is gone and its stack with it.
ClientGone ==
    /\ rfds' = {}
    /\ netbuf' = <<>>
    /\ inbuf' = <<>>
    /\ cn' = 0
    /\ off' = 0

\* argc != 3: usage; return EXIT_FAILURE
C_Usage ==
    /\ cpc = "start"
    /\ cstatus' = 1
    /\ cpc' = "exited"
    /\ UNCHANGED <<svars, nvars, kvars, stdin_open, rfds, stdin, stdout, netbuf, inbuf,
                   cn, off, cclosed, shuts, cexit>>

\* connect_to(): connected, or perror and return EXIT_FAILURE
C_Connect ==
    /\ cpc = "start"
    /\ IF Listening /\ cst[CC] = "none"
       THEN /\ cst' = [cst EXCEPT ![CC] = "pending"]
            /\ copen' = [copen EXCEPT ![CC] = TRUE]
            /\ cpc' = "select"
            /\ UNCHANGED cstatus
       ELSE /\ cstatus' = 1
            /\ cpc' = "exited"
            /\ UNCHANGED <<cst, copen>>
    /\ UNCHANGED <<svars, c2s, s2c, cwr, cin, cout, kvars, stdin_open, rfds, stdin, stdout,
                   netbuf, inbuf, cn, off, cclosed, shuts, cexit>>

\* C_Select after which the local input is handled first
C_Select_LocalFirst ==
    /\ cpc = "select"
    /\ Ready # {}
    /\ rfds' = Ready
    /\ cpc' = IF "in" \in Ready THEN "stdin" ELSE "net"
    /\ UNCHANGED <<svars, nvars, kvars, stdin_open, stdin, stdout, netbuf, inbuf,
                   cn, off, cstatus, cclosed, shuts, cexit>>

\* select() returns: blocks until one of the polled descriptors is readable
C_Select ==
    /\ cpc = "select"
    /\ Ready # {}
    /\ rfds' = Ready
    /\ cpc' = IF "fd" \in Ready THEN "net" ELSE "stdin"
    /\ UNCHANGED <<svars, nvars, kvars, stdin_open, stdin, stdout, netbuf, inbuf,
                   cn, off, cstatus, cclosed, shuts, cexit>>

\* a system call of the client fails with EINTR
C_Eintr ==
    /\ cpc \in {"select", "net", "write", "stdin", "send"}
    /\ cpc' = EintrAt[cpc]
    /\ UNCHANGED <<svars, nvars, kvars, stdin_open, rfds, stdin, stdout, netbuf, inbuf,
                   cn, off, cstatus, cclosed, shuts, cexit>>

\* if (errno == EINTR) continue;  the innermost loop goes round: the event
\* loop after select, recv and read, the write-all loops after write and send
C_Retry ==
    /\ \E at \in DOMAIN EintrAt :
         /\ cpc = EintrAt[at]
         /\ cpc' = IF at \in {"write", "send"} THEN at ELSE "select"
    /\ UNCHANGED <<svars, nvars, kvars, stdin_open, rfds, stdin, stdout, netbuf, inbuf,
                   cn, off, cstatus, cclosed, shuts, cexit>>

\* a system call of the client fails with another error: perror, and break
\* or goto done
C_Err ==
    /\ cpc \in {"select", "net", "write", "stdin", "send"}
    /\ cexit' = cpc
    /\ cpc' = "done"
    /\ UNCHANGED <<svars, nvars, kvars, stdin_open, rfds, stdin, stdout, netbuf, inbuf,
                   cn, off, cstatus, cclosed, shuts>>

\* recv returns k > 0 bytes
C_RecvData ==
    /\ cpc = "net"
    /\ \E k \in 1..Min(BufSize, Len(s2c[CC])) :
         /\ netbuf' = Take(s2c[CC], k)
         /\ s2c' = [s2c EXCEPT ![CC] = Drop(@, k)]
         /\ cout' = [cout EXCEPT ![CC] = @ \o Take(s2c[CC], k)]
         /\ cn' = k
    /\ off' = 0
    /\ cpc' = "write"
    /\ UNCHANGED <<svars, cst, c2s, cwr, copen, cin, kvars, stdin_open, rfds, stdin, stdout,
                   inbuf, cstatus, cclosed, shuts, cexit>>

\* recv returns 0: the server closed the connection; break
C_RecvEof ==
    /\ cpc = "net"
    /\ s2c[CC] = <<>>
    /\ cst[CC] = "sclosed"
    /\ cexit' = "remote"
    /\ cpc' = "done"
    /\ UNCHANGED <<svars, nvars, kvars, stdin_open, rfds, stdin, stdout, netbuf, inbuf,
                   cn, off, cstatus, cclosed, shuts>>

\* write(STDOUT_FILENO, netbuf + off, n - off) transfers m bytes; off += m
C_Write ==
    /\ cpc = "write"
    /\ \E m \in 1..(cn - off) :
         /\ stdout' = stdout \o SubSeq(netbuf, off + 1, off + m)
         /\ IF off + m < cn
            THEN off' = off + m /\ cpc' = "write" /\ UNCHANGED cn
            ELSE off' = 0 /\ cn' = 0 /\ cpc' = AfterNet
    /\ UNCHANGED <<svars, nvars, kvars, stdin_open, rfds, stdin, netbuf, inbuf,
                   cstatus, cclosed, shuts, cexit>>

\* read(STDIN_FILENO) returns k > 0 bytes
C_ReadData ==
    /\ cpc = "stdin"
    /\ \E k \in 1..Min(BufSize, Len(stdin)) :
         /\ inbuf' = Take(stdin, k)
         /\ stdin' = Drop(stdin, k)
         /\ cn' = k
    /\ off' = 0
    /\ cpc' = "send"
    /\ UNCHANGED <<svars, nvars, kvars, stdin_open, rfds, stdout, netbuf,
                   cstatus, cclosed, shuts, cexit>>

\* C_ReadEof that leaves the loop at the end of the local input
C_ReadEof_Break ==
    /\ cpc = "stdin"
    /\ stdin = <<>>
    /\ stdin_eof
    /\ cwr' = [cwr EXCEPT ![CC] = FALSE]
    /\ shuts' = shuts + 1
    /\ stdin_open' = FALSE
    /\ cpc' = "done"
    /\ UNCHANGED <<svars, cst, c2s, s2c, copen, cin, cout, kvars, rfds, stdin, stdout,
                   netbuf, inbuf, cn, off, cstatus, cclosed, cexit>>

\* read returns 0: shutdown(fd, SHUT_WR); stdin_open = false
C_ReadEof ==
    /\ cpc = "stdin"
    /\ stdin = <<>>
    /\ stdin_eof
    /\ cwr' = [cwr EXCEPT ![CC] = FALSE]
    /\ shuts' = shuts + 1
    /\ stdin_open' = FALSE
    /\ cpc' = "select"
    /\ UNCHANGED <<svars, cst, c2s, s2c, copen, cin, cout, kvars, rfds, stdin, stdout,
                   netbuf, inbuf, cn, off, cstatus, cclosed, cexit>>

\* send(fd, inbuf + off, n - off) transfers m bytes; off += m
C_Send ==
    /\ cpc = "send"
    /\ cst[CC] \in {"pending", "accepted"}
    /\ cwr[CC]
    /\ \E m \in 1..Min(cn - off, cap - Len(c2s[CC])) :
         /\ c2s' = [c2s EXCEPT ![CC] = @ \o SubSeq(inbuf, off + 1, off + m)]
         /\ cin' = [cin EXCEPT ![CC] = @ \o SubSeq(inbuf, off + 1, off + m)]
         /\ IF off + m < cn
            THEN off' = off + m /\ cpc' = "send" /\ UNCHANGED cn
            ELSE off' = 0 /\ cn' = 0 /\ cpc' = "select"
    /\ UNCHANGED <<svars, cst, s2c, cwr, copen, cout, kvars, stdin_open, rfds, stdin, stdout,
                   netbuf, inbuf, cstatus, cclosed, shuts, cexit>>

\* send on a connection the server has closed: SIGPIPE, which the client
\* neither handles nor ignores, ends the process
C_Sigpipe ==
    /\ cpc = "send"
    /\ cst[CC] = "sclosed"
    /\ cpc' = "killed"
    /\ copen' = [copen EXCEPT ![CC] = FALSE]
    /\ cwr' = [cwr EXCEPT ![CC] = FALSE]
    /\ ClientGone
    /\ UNCHANGED <<svars, cst, c2s, s2c, cin, cout, kvars, stdin_open, stdin, stdout,
                   cstatus, cclosed, shuts, cexit>>

\* done: close(fd); return EXIT_SUCCESS
C_Done ==
    /\ cpc = "done"
    /\ copen' = [copen EXCEPT ![CC] = FALSE]
    /\ cwr' = [cwr EXCEPT ![CC] = FALSE]
    /\ cclosed' = cclosed + 1
    /\ cstatus' = 0
    /\ cpc' = "exited"
    /\ ClientGone
    /\ UNCHANGED <<svars, cst, c2s, s2c, cin, cout, kvars, stdin_open, stdin, stdout,
                   shuts, cexit>>

\* the user types one more byte (the i-th byte typed is ByteOf(CC, i), so every
\* byte of the input is told apart from the others), or ends the input
U_Type ==
    /\ cpc \notin {"off", "start", "exited", "killed"}
    /\ ~stdin_eof
    /\ typed < MaxIn
    /\ typed' = typed + 1
    /\ stdin' = Append(stdin, ByteOf(CC, typed))
    /\ UNCHANGED <<svars, nvars, cap, stdin_eof, cpc, stdin_open, rfds, stdout, netbuf, inbuf,
                   cn, off, cstatus, cclosed, shuts, cexit>>

U_Eof ==
    /\ cpc \notin {"off", "start", "exited", "killed"}
    /\ ~stdin_eof
    /\ stdin_eof' = TRUE
    /\ UNCHANGED <<svars, nvars, cap, typed, cpc, stdin_open, rfds, stdin, stdout, netbuf,
                   inbuf, cn, off, cstatus, cclosed, shuts, cexit>>

ClientNext ==
    \/ C_Usage \/ C_Connect \/ C_Select
    \/ C_Eintr \/ C_Retry \/ C_Err
    \/ C_RecvData \/ C_RecvEof \/ C_Write
    \/ C_ReadData \/ C_ReadEof \/ C_Send \/ C_Sigpipe
    \/ C_Done
    \/ U_Type \/ U_Eof

\* ---------------------------------------------------------------- specifications
ServerNext ==
    \/ M_Start \/ M_Resolve \/ M_Bind \/ M_Listen
    \/ M_Test \/ M_Malloc
    \/ M_AcceptOk \/ M_AcceptEintr \/ M_AcceptErr \/ M_AcceptFailed
    \/ M_SpawnOk \/ M_SpawnFail
    \/ M_CloseListener \/ M_Return
    \/ SigintMain \/ SigintWorker
    \/ \E t \in Tids : W_Start(t)
    \/ \E t \in Tids : W_RecvData(t)
    \/ \E t \in Tids : W_RecvEof(t)
    \/ \E t \in Tids : W_RecvEintr(t)
    \/ \E t \in Tids : W_RecvRetry(t)
    \/ \E t \in Tids : W_RecvErr(t)
    \/ \E t \in Tids : W_Send(t)
    \/ \E t \in Tids : W_SendEintr(t)
    \/ \E t \in Tids : W_SendRetry(t)
    \/ \E t \in Tids : W_SendErr(t)
    \/ \E t \in Tids : W_Close(t)

\* The server with up to NConn peers, each sending a short message.
Next ==
    \/ ServerNext
    \/ \E c \in Conns : P_Connect(c)
    \/ \E c \in Conns : P_Send(c, MsgMulti, {0})
    \/ \E c \in Conns : P_Shutdown(c)
    \/ \E c \in Conns : P_Recv(c)

Spec == Init /\ [][Next]_vars

\* The server with a single peer that sends any message of up to MaxMsg bytes.
NextEcho ==
    \/ ServerNext
    \/ P_Connect(1)
    \/ P_Send(1, MaxMsg, Vals)
    \/ P_Shutdown(1)
    \/ P_Recv(1)

SpecEcho == Init /\ [][NextEcho]_vars

\* The server and one client.c process.
NextClient == ServerNext \/ ClientNext

SpecClient == InitClient /\ [][NextClient]_vars

\* The server with fair scheduling of its threads: a thread that can take its
\* next step takes it, and an accept() that a handler interrupted returns.
\* The peers, failures of system calls and signals are under no obligation.
FairServer ==
    /\ WF_vars(M_Start) /\ WF_vars(M_Resolve) /\ WF_vars(M_Bind) /\ WF_vars(M_Listen)
    /\ WF_vars(M_Test) /\ WF_vars(M_Malloc)
    /\ WF_vars(M_AcceptOk) /\ WF_vars(M_AcceptEintr /\ mintr) /\ WF_vars(M_AcceptFailed)
    /\ WF_vars(M_SpawnOk \/ M_SpawnFail)
    /\ WF_vars(M_CloseListener) /\ WF_vars(M_Return)
    /\ \A t \in Tids :
         /\ WF_vars(W_Start(t)) /\ WF_vars(W_RecvData(t)) /\ WF_vars(W_RecvEof(t))
         /\ WF_vars(W_RecvRetry(t)) /\ WF_vars(W_Send(t)) /\ WF_vars(W_SendRetry(t))
         /\ WF_vars(W_Close(t))

FairSpec == Spec /\ FairServer

\* ---------------------------------------------------------------- properties
\* the bytes the server has sent on connection c, and those it has received
Echoed(c) == cout[c] \o s2c[c]
Received(c) == Take(cin[c], Len(cin[c]) - Len(c2s[c]))
Running == {"start", "recv", "recv_eintr", "send", "send_eintr", "close"}

\* C1: raw echo.  At every moment the bytes a session has sent back are a
\* prefix of the bytes it has received, and when its loop ends on the peer's
\* end of stream they are exactly the bytes the peer sent, in order.
C1_RawEcho ==
    /\ \A c \in Conns : IsPrefix(Echoed(c), Received(c))
    /\ \A t \in Tids :
         (wpc[t] = "close" /\ wend[t] = "eof")
            => Echoed(ConnOf(wfd[t])) = cin[ConnOf(wfd[t])]

\* a message of MaxMsg bytes, not all equal, echoed in full at the end of stream
C1_Witness ==
    \E t \in Tids :
        /\ wpc[t] = "close" /\ wend[t] = "eof"
        /\ Len(cin[1]) = MaxMsg
        /\ cin[1][1] # cin[1][2]
        /\ cout[1] = cin[1]

\* C2: shutdown lets the sessions in flight finish.  No step ends a worker
\* thread that is still running its session: a session ends only by its own
\* close and pthread_exit, also after the accept loop has stopped.
C2_ShutdownLetsSessionsFinish ==
    [][\A t \in Tids : (g_stop = 1 /\ wpc[t] \in Running) => wpc'[t] # "killed"]_vars

\* C3: a shutdown request stops the listener.  Once g_stop is set, the accept
\* loop eventually exits and the listening socket is closed.
C3_ShutdownStopsListener == (g_stop = 1) ~> ~listen_open

\* C4: no cross-talk.  Every byte the server has sent on a connection is a
\* byte that the peer of that connection sent.
C4_NoCrossTalk ==
    \A c \in Conns : \A i \in DOMAIN Echoed(c) :
        \E j \in DOMAIN cin[c] : Echoed(c)[i] = cin[c][j]

\* two sessions in progress at the same time, each peer holding its echo
C4_Witness ==
    /\ \A t \in {1, 2} : wpc[t] \in {"recv", "send"}
    /\ \A c \in {1, 2} : cout[c] = cin[c] /\ cin[c] # <<>>

\* the client is inside its event loop
InLoop == cpc \notin {"off", "start", "done", "exited", "killed"}
\* the bytes of netbuf that the client has received and not yet written
Unwritten == IF cpc \in {"write", "write_eintr"} THEN SubSeq(netbuf, off + 1, cn) ELSE <<>>
ErrSites == {"select", "net", "write", "stdin", "send"}

\* C5: half-close.  At the end of the local input the client shuts down the
\* write half only and stays in its loop with the connection open; it leaves
\* the loop only when recv returns 0 on the drained connection or a call
\* fails with an unretryable error; and every byte it has received from the
\* server is written to standard output, in order, before it returns to select.
C5_HalfClose ==
    /\ [](InLoop => stdout \o Unwritten = cout[CC])
    /\ [][(stdin_open /\ ~stdin_open')
             => (cpc' = "select" /\ copen'[CC] /\ ~cwr'[CC] /\ cclosed' = 0)]_vars
    /\ [][(InLoop /\ cpc' = "done")
             => \/ cexit' = "remote" /\ cpc = "net" /\ s2c[CC] = <<>> /\ cst[CC] = "sclosed"
                \/ cexit' \in ErrSites /\ cexit' = cpc]_vars

\* after the half-close the client is writing bytes the server sent after it
C5_Witness ==
    /\ ~stdin_open
    /\ cpc = "write"
    /\ Len(c2s[CC]) + Len(s2c[CC]) > 0
    /\ stdout # <<>>

\* C6: the client and the server session are never both blocked in send, each
\* with the channel it writes to full and the other the only one to drain it.
C6_NeverBothBlockedInSend ==
    ~ /\ cpc = "send"
      /\ Len(c2s[CC]) = cap
      /\ Len(s2c[CC]) = cap
      /\ \E t \in Tids : wpc[t] = "send" /\ ConnOf(wfd[t]) = CC

\* C7: end-to-end termination.  When a session served the client, the client
\* has ended after the end of its local input because the remote side closed,
\* and no call failed with an unretryable error, then the session had read the
\* end of the stream, and the client's status is 0 with every byte it
\* forwarded on standard output.  (Stated for the runs with a shutdown request.)
C7_EndToEnd ==
    (/\ cpc = "exited"
     /\ cexit = "remote"
     /\ ~stdin_open
     /\ g_stop = 1
     /\ \E t \in Tids : wlog[t] # <<>>
     /\ \A t \in Tids : wend[t] \notin {"recv", "send"})
        => (/\ cstatus = 0
            /\ stdout = cin[CC]
            /\ \E t \in Tids : wend[t] = "eof")

\* C8: a session closes its connection on every exit path.  A worker that has
\* exited has called close(fd) exactly once, and a worker that is still at a
\* recv, a send or before its close has not called it.
C8_CloseOnEveryPath ==
    \A t \in Tids :
        /\ wpc[t] = "exited" => closes[t] = 1
        /\ wpc[t] \in Running => closes[t] = 0

\* two sessions have ended, one on a send error and one otherwise
C8_Witness ==
    \E t, u \in Tids :
        /\ wpc[t] = "exited" /\ wend[t] = "send"
        /\ wpc[u] = "exited" /\ wend[u] \in {"eof", "recv"}

\* C9: a spawn failure is not fatal.  The step in which pthread_create fails
\* closes the accepted connection, frees its context and returns to the test
\* of the accept loop, with the listener open and the process running.
C9_SpawnFailureNotFatal ==
    [][(mpc = "spawn" /\ mpc' # "spawn" /\ nthr' = nthr)
          => /\ mpc' = "test"
             /\ listen_open' /\ status' = -1
             /\ ~heap'[ctx].live
             /\ fdtab'[heap[ctx].fd] = 0
             /\ cst'[fdtab[heap[ctx].fd]] = "sclosed"]_vars

\* after a spawn failure closed one connection, the only thread created so
\* far serves another connection, which has its echo, and the loop goes on
C9_Witness ==
    /\ listen_open /\ mpc = "accept"
    /\ nthr = 1
    /\ \E c, d \in Conns :
         /\ cst[c] = "sclosed"
         /\ cst[d] = "accepted" /\ ConnOf(wfd[1]) = d
         /\ cout[d] # <<>>

\* C10: a signal-interrupted accept is never fatal.  After accept failed with
\* EINTR the loop goes back to its test, and the test alone decides between
\* another accept and the end of the loop; after any other failure of accept
\* the loop ends.
C10_AcceptEintrNotFatal ==
    [][/\ (mpc = "accept_eintr" /\ mpc' # mpc) => (mpc' = "test" /\ listen_open')
       /\ (mpc = "accept_err" /\ mpc' # mpc) => mpc' = "shut"
       /\ (mpc = "test" /\ mpc' # mpc) => mpc' = (IF g_stop = 0 THEN "alloc" ELSE "shut")
      ]_vars

\* accept has failed with EINTR after a shutdown request, the listener is open
\* and a session is in progress
C10_Witness ==
    /\ mpc = "accept_eintr" /\ g_stop = 1
    /\ listen_open
    /\ \E t \in Tids : wpc[t] \in Running

\* C11 (error containment): the step in which a session takes an unretryable
\* recv or send error, and the step in which that session's thread then ends,
\* change nothing but that session: the dispatcher stays where it is with its
\* listener open, the process keeps running, and every other thread, every
\* other descriptor and every other connection is untouched.
SessionErrors == {"recv", "send"}

C11_ErrorContainment ==
    [][\A t \in Tids :
         (/\ wend'[t] \in SessionErrors
          /\ wpc[t] \in Running
          /\ wpc'[t] # wpc[t]
          /\ (wend[t] = "none" \/ wpc'[t] = "exited"))
         => /\ wpc'[t] \in {"close", "exited"}
            /\ UNCHANGED <<mvars, heap, nthr>>
            /\ \A u \in Tids \ {t} :
                 /\ wpc'[u] = wpc[u]
                 /\ wfd'[u] = wfd[u]
                 /\ buf'[u] = buf[u]
                 /\ n'[u] = n[u]
                 /\ sent'[u] = sent[u]
            /\ \A f \in Fds \ {wfd[t]} : fdtab'[f] = fdtab[f]
            /\ \A d \in Conns \ {ConnOf(wfd[t])} :
                 /\ cst'[d] = cst[d]
                 /\ c2s'[d] = c2s[d]
                 /\ s2c'[d] = s2c[d]
                 /\ copen'[d] = copen[d]]_vars

\* one session has ended on an error; the dispatcher is in accept and another
\* session is open and has echoed
C11_Witness ==
    \E t \in Tids : \E u \in Tids \ {t} :
       /\ wpc[t] = "exited"
       /\ wend[t] \in SessionErrors
       /\ mpc = "accept"
       /\ listen_open
       /\ wpc[u] \in {"recv", "send"}
       /\ cst[ConnOf(wfd[u])] = "accepted"
       /\ cout[ConnOf(wfd[u])] # <<>>

\* C12 (connect and disconnect logs are paired): a session thread that has
\* run to its end has logged "[+] client connected" and then
\* "[-] client disconnected", once each, whatever ended the session (end of
\* stream, recv error, send error); and no thread logs the disconnect twice.
C12_LogsPaired ==
    \A t \in Tids :
       /\ wpc[t] = "exited" => wlog[t] = <<"+", "-">>
       /\ IsPrefix(wlog[t], <<"+", "-">>)

\* C13 (server exit status): the process ends with status 1 only from the
\* start-up steps (arguments, address resolution, bind, listen), before the
\* accept loop has started; and it ends with status 0 only after a shutdown
\* request ended the accept loop, so that status 0 means a clean shutdown.
StartUp == {"start", "resolve", "bind", "listen"}

C13_ExitStatus ==
    [][/\ (status = -1 /\ status' = 1) => (mpc \in StartUp /\ nthr = 0)
       /\ (status = -1 /\ status' = 0) => g_stop = 1]_vars

\* C14 (exclusive ownership of a connection's context and descriptor): while
\* the process runs, every live client_ctx has exactly one owner (the
\* dispatcher between malloc and the spawn, the worker from the spawn until it
\* frees it at entry) and every open connection descriptor has exactly one
\* owner (the dispatcher between accept and the spawn, the worker afterwards).
\* Hence the context is still allocated whenever its owner reads or frees it,
\* nobody reads it after the free, the dispatcher holds nothing of a
\* connection it has handed over, and a worker that has run to its end has
\* closed its descriptor exactly once.
MainHoldsCtx == mpc \in {"accept", "accept_eintr", "accept_err", "spawn"}
Starting == {t \in Tids : wpc[t] = "start"}
Serving == {t \in Tids : wpc[t] \in Running \ {"start"}}
CtxOwned == (IF MainHoldsCtx THEN {ctx} ELSE {}) \cup {warg[t] : t \in Starting}
FdOwned ==
    (IF mpc = "spawn" THEN {heap[ctx].fd} ELSE {})
       \cup {heap[warg[t]].fd : t \in Starting} \cup {wfd[t] : t \in Serving}

C14_ExclusiveOwnership ==
    status = -1 =>
       /\ MainHoldsCtx => (ctx \in Addrs /\ heap[ctx].live)
       /\ ~MainHoldsCtx => ctx = 0
       /\ \A t \in Starting :
            /\ warg[t] \in Addrs /\ heap[warg[t]].live
            /\ MainHoldsCtx => warg[t] # ctx
            /\ \A u \in Starting \ {t} : warg[u] # warg[t]
       /\ {a \in Addrs : heap[a].live} = CtxOwned
       /\ \A t \in Serving :
            /\ wfd[t] \in Fds
            /\ \A u \in Serving \ {t} : wfd[u] # wfd[t]
            /\ \A u \in Starting : heap[warg[u]].fd # wfd[t]
            /\ mpc = "spawn" => heap[ctx].fd # wfd[t]
       /\ \A t \in Starting :
            /\ mpc = "spawn" => heap[ctx].fd # heap[warg[t]].fd
            /\ \A u \in Starting \ {t} : heap[warg[u]].fd # heap[warg[t]].fd
       /\ {f \in Fds : fdtab[f] # 0} = FdOwned
       /\ \A t \in Tids : wpc[t] = "exited" => closes[t] = 1
       /\ \A t \in Tids : wpc[t] \in Running => closes[t] = 0

\* a worker has freed its context and serves its connection, and the
\* dispatcher holds a new context at the same address for a new connection
C14_Witness ==
    \E t \in Tids :
       /\ wpc[t] \in {"recv", "send"}
       /\ mpc = "spawn"
       /\ ctx = warg[t]
       /\ heap[ctx].live
       /\ heap[ctx].fd # wfd[t]

\* C15 (write-all under partial sends): while a session sends a received
\* chunk, 0 <= sent < n = the chunk's length at every send call; a send that
\* takes m bytes puts exactly the bytes buf[sent+1 .. sent+m] on the
\* connection and advances sent by m, never beyond n; and the session goes
\* from send back to recv only with sent = n.
Sending == {"send", "send_eintr"}

C15_WriteAll ==
    /\ [](\A t \in Tids : wpc[t] \in Sending =>
             /\ n[t] = Len(buf[t])
             /\ 0 <= sent[t]
             /\ sent[t] < n[t])
    /\ [][\A t \in Tids :
            /\ (wpc[t] = "send" /\ sent'[t] # sent[t] /\ wpc'[t] \in {"send", "recv"})
               => /\ sent[t] < sent'[t]
                  /\ sent'[t] <= n[t]
                  /\ buf'[t] = buf[t]
                  /\ n'[t] = n[t]
                  /\ s2c'[ConnOf(wfd[t])] =
                        s2c[ConnOf(wfd[t])] \o SubSeq(buf[t], sent[t] + 1, sent'[t])
            /\ (wpc[t] \in Sending /\ wpc'[t] = "recv") => sent'[t] = n'[t]]_vars

\* a partial send: part of the chunk is out, the rest is still to be sent
C15_Witness ==
    \E t \in Tids :
       /\ wpc[t] = "send"
       /\ 0 < sent[t]
       /\ sent[t] < n[t]
       /\ s2c[ConnOf(wfd[t])] # <<>>

\* C16 (EINTR is retried without effect): when recv or send fails with EINTR
\* the session stays open, its buffer and the count of bytes already sent are
\* unchanged, nothing moves on the connection, and the thread's next step is
\* the same call again; any other recv or send error ends the session at
\* once: the thread goes straight to its close or exit and issues no further
\* recv or send.
Interrupted == {"recv_eintr", "send_eintr"}
CallOf == [recv_eintr |-> "recv", send_eintr |-> "send"]

C16_EintrRetried ==
    /\ [][\A t \in Tids :
            /\ (wpc[t] \in {"recv", "send"} /\ wpc'[t] \in Interrupted)
               => /\ wpc'[t] = wpc[t] \o "_eintr"
                  /\ buf'[t] = buf[t]
                  /\ sent'[t] = sent[t]
                  /\ wfd'[t] = wfd[t]
                  /\ wend'[t] = "none"
                  /\ UNCHANGED <<fdtab, closes, nvars>>
            /\ (wpc[t] \in Interrupted /\ wpc'[t] # wpc[t] /\ status' = -1)
               => /\ wpc'[t] = CallOf[wpc[t]]
                  /\ buf'[t] = buf[t]
                  /\ sent'[t] = sent[t]
                  /\ n'[t] = n[t]
                  /\ wfd'[t] = wfd[t]
                  /\ wend'[t] = "none"
                  /\ UNCHANGED <<fdtab, closes, nvars>>
            /\ (wend[t] = "none" /\ wend'[t] = "recv") => wpc'[t] = "close"
            /\ (wend[t] = "none" /\ wend'[t] = "send") => wpc'[t] = "exited"]_vars
    /\ [](\A t \in Tids :
            wend[t] \in SessionErrors => wpc[t] \in {"close", "exited", "killed"})

\* a recv was interrupted after the session had echoed, and the session is
\* back in recv with its connection open
C16_Witness ==
    \E t \in Tids :
       /\ wpc[t] = "recv"
       /\ n[t] = -1
       /\ wend[t] = "none"
       /\ cst[ConnOf(wfd[t])] = "accepted"
       /\ cout[ConnOf(wfd[t])] # <<>>

\* C17 (half-open state is monotone): stdin_open is true when the loop starts
\* and, once false, stays false; from then on a select never polls the local
\* input, the client is never at the read of the local input nor at a send,
\* nothing more goes out on the connection, and the write half has been shut
\* down exactly once (and not at all while stdin_open is true).
LocalSide == {"stdin", "stdin_eintr", "send", "send_eintr"}

C17_HalfOpenMonotone ==
    /\ [](cpc \in {"start", "select"} /\ shuts = 0 => stdin_open)
    /\ [](stdin_open => shuts = 0)
    /\ [](~stdin_open => (shuts = 1 /\ cpc \notin LocalSide /\ ~cwr[CC]))
    /\ [][~stdin_open =>
            /\ ~stdin_open'
            /\ shuts' = shuts
            /\ cin'[CC] = cin[CC]
            /\ c2s'[CC] = c2s[CC] \/ Len(c2s'[CC]) < Len(c2s[CC])
            /\ (rfds' # rfds => "in" \notin rfds')
            /\ Len(stdin') >= Len(stdin)]_vars

\* the local input has ended, the write half is shut down, and after a later
\* select, which did not poll the local input, the client is still receiving
C17_Witness ==
    /\ ~stdin_open
    /\ shuts = 1
    /\ cpc = "write"
    /\ rfds = {"fd"}
    /\ ~cwr[CC]
    /\ copen[CC]

\* C18 (client loop exit and exit status): the client leaves its event loop
\* only at a recv that returned 0 or at a call (select, recv, write, read,
\* send) that failed with an unretryable error, never from a retry after EINTR
\* and never at the end of the local input; and whenever the client has left
\* the loop, the process ends having closed the connection exactly once, with
\* status 0.
C18_LoopExit ==
    /\ [][(InLoop /\ ~InLoop')
             => /\ cpc' = "done"
                /\ \/ cexit' = "remote" /\ cpc = "net"
                   \/ cexit' \in ErrSites /\ cexit' = cpc]_vars
    /\ [][((InLoop \/ cpc = "done") /\ cpc' \in {"exited", "killed"})
             => /\ cpc = "done"
                /\ cpc' = "exited"
                /\ cclosed' = 1
                /\ cstatus' = 0
                /\ ~copen'[CC]]_vars
    /\ [](cclosed <= 1)

\* C19 (dispatch does not wait for sessions): the step that hands a connection
\* to a new worker takes the dispatcher straight back to the loop test, with
\* the new worker not yet run and every other session left as it was; and
\* whenever the dispatcher is at the loop test, at malloc, or at accept with a
\* connection pending, its step is enabled whatever the sessions are doing,
\* also while a session is blocked in recv or send.
BlockedInRecv(t) ==
    wpc[t] = "recv" /\ ConnOf(wfd[t]) # 0 /\ c2s[ConnOf(wfd[t])] = <<>> /\ cwr[ConnOf(wfd[t])]
BlockedInSend(t) ==
    /\ wpc[t] = "send" /\ ConnOf(wfd[t]) # 0
    /\ copen[ConnOf(wfd[t])] /\ Len(s2c[ConnOf(wfd[t])]) >= cap

C19_DispatchDoesNotWait ==
    /\ [][(mpc = "spawn" /\ nthr' = nthr + 1)
             => /\ mpc' = "test"
                /\ wpc'[nthr'] = "start"
                /\ \A t \in Tids \ {nthr'} : wpc'[t] = wpc[t]]_vars
    /\ [](mpc = "test" => ENABLED M_Test)
    /\ [](mpc = "alloc" => ENABLED M_Malloc)
    /\ []((mpc = "accept" /\ ~mintr /\ \E c \in Conns : cst[c] = "pending")
             => ENABLED M_AcceptOk)
    /\ [](mpc = "spawn" => ENABLED (M_SpawnOk \/ M_SpawnFail))

\* the first session is blocked in recv or in send and the second connection,
\* accepted after it, has been echoed to
C19_Witness ==
    /\ nthr = 2
    /\ BlockedInRecv(1) \/ BlockedInSend(1)
    /\ wpc[2] \in {"recv", "send"}
    /\ ConnOf(wfd[2]) # 0
    /\ cout[ConnOf(wfd[2])] # <<>>
    /\ mpc = "accept"

\* C20 (remote before local in one wake-up): when select reports the socket
\* ready, alone or together with the local input, the client goes to recv
\* first, and it reaches the read of the local input in that iteration only
\* from the completed socket block; if that recv returns 0 or fails with an
\* unretryable error the client leaves the loop in the same step, and from
\* then on nothing is taken from the local input and nothing more is sent; if
\* the recv fails with EINTR the client goes back to select with the local
\* input untouched, so that the next select reports it again.
BothReady == rfds = {"fd", "in"}

C20_RemoteBeforeLocal ==
    /\ [][(cpc = "select" /\ rfds' # rfds /\ "fd" \in rfds') => cpc' = "net"]_vars
    /\ [][(cpc # "stdin" /\ cpc' = "stdin")
             => \/ cpc = "select" /\ rfds' = {"in"}
                \/ cpc = "write" /\ BothReady /\ off' = 0 /\ cn' = 0]_vars
    /\ [][(cpc = "net" /\ BothReady /\ cpc' \notin {"net", "net_eintr", "write"})
             => /\ cpc' = "done"
                /\ cexit' \in {"remote", "net"}
                /\ stdin' = stdin
                /\ inbuf' = inbuf
                /\ cin' = cin]_vars
    /\ [][(cpc \in {"done", "exited"})
             => /\ cin' = cin
                /\ IsPrefix(stdin, stdin')
                /\ (inbuf' = inbuf \/ inbuf' = <<>>)]_vars
    /\ [][(cpc = "net_eintr" /\ cpc' # cpc)
             => /\ cpc' = "select"
                /\ stdin' = stdin
                /\ stdin_eof' = stdin_eof
                /\ stdin_open' = stdin_open
                /\ cin' = cin]_vars
    /\ []((cpc = "select" /\ stdin_open /\ stdin # <<>>) => "in" \in Ready)

\* select reported both, recv returned 0, and the client is leaving the loop
\* with the ready local input unread
C20_Witness ==
    /\ cpc = "done"
    /\ cexit = "remote"
    /\ BothReady
    /\ stdin # <<>>
    /\ stdin_open

====
